---------------------------- MODULE Spec2Model ----------------------------
(***************************************************************************)
(* The SRAM reader firmware (src/unnamed/part_000): the serial command     *)
(* interpreter, its windowed flow control, the bus mode functions and the  *)
(* bit-banged address serializer, together with the hardware the sketch    *)
(* drives (three chained 74LS164 shift registers and the M48Z128 chip) and *)
(* the host on the other end of the serial link.                           *)
(*                                                                         *)
(* Bytes are integers 0..255; text is a tuple of ASCII codes.  One step of *)
(* the firmware is one blocking read_serial(), one serial output call, one *)
(* mode function, one add_address_bit() or one enable-line write.          *)
(***************************************************************************)
EXTENDS Integers, Sequences, FiniteSets, TLC

VARIABLES
    pc,           \* position of the firmware in read_and_execute_command
    syncpos,      \* how many sync bytes this call has matched (0..3)
    instruction,  \* local `instruction`
    startaddr,    \* local `startaddr`
    endaddr,      \* local `endaddr`
    naddr,        \* how many of the 6 address bytes have been read
    addr,         \* loop variable `addr`
    cont,         \* local `cont` (16-bit int)
    i,            \* loop variable `i` of read_sram / write_sram
    byteval,      \* `byteval` of read_sram / write_sram
    hw,           \* pins, shift registers and chip
    wire,         \* serial bytes sent by the host and not yet read
    out,          \* serial bytes emitted during the current call
    log,          \* history of the current call (reads, writes, payload, tokens)
    host,         \* what the host is doing (range, payload seed, bytes sent)
    nframes,      \* frames the host has sent
    ndispatch,    \* instruction bytes the firmware has dispatched
    hist          \* history across calls (flow-control aborts, the last Write)

vars == <<pc, syncpos, instruction, startaddr, endaddr, naddr, addr, cont, i,
          byteval, hw, wire, out, log, host, nframes, ndispatch, hist>>

---------------------------------------------------------------------------
(* Program constants *)

MEM_SIZE == 131072

DQ0 == 2
DQ1 == 3
DQ2 == 4
DQ3 == 5
DQ4 == 6
DQ5 == 7
DQ6 == 8
DQ7 == 9
SERDAT == 10
SERCLK == 11
WE == 12
OE == 13

LOW == 0
HIGH == 1

\* number of address bits clocked out per access
ADDR_BITS == 24

\* flow-control window, the literal of `cont % 32`
WINDOW == 32

\* width of `int` on the target
INT_BITS == 16

\* address lines A0..A16 of the chip
CHIP_ADDR_LINES == 17

CH_S == 83
CH_R == 82
CH_W == 87
CH_C == 67
CH_O == 79

SYNC == <<83, 82, 65, 77>>
STR_NG == <<78, 71>>
STR_OK == <<79, 75>>
STR_CO == <<67, 79>>
STR_Starting == <<83, 116, 97, 114, 116, 105, 110, 103>>
STR_Ending == <<69, 110, 100, 105, 110, 103>>
STR_address == <<32, 97, 100, 100, 114, 101, 115, 115, 32>>
STR_out_of_bounds == <<32, 111, 117, 116, 32, 111, 102, 32, 98, 111, 117, 110,
                       100, 115, 33>>
STR_out_of_order == <<65, 100, 100, 114, 101, 115, 115, 32, 98, 111, 117, 110,
                      100, 115, 32, 111, 117, 116, 32, 111, 102, 32, 111, 114,
                      100, 101, 114, 33>>
STR_unexpected == <<85, 110, 101, 120, 112, 101, 99, 116, 101, 100, 32, 99,
                    111, 110, 116, 105, 110, 117, 97, 116, 105, 111, 110, 32,
                    102, 114, 111, 109, 32, 99, 108, 105, 101, 110, 116, 33>>
STR_unknown == <<85, 110, 107, 110, 111, 119, 110, 32, 99, 111, 109, 109, 97,
                 110, 100, 33>>

DQ == <<DQ0, DQ1, DQ2, DQ3, DQ4, DQ5, DQ6, DQ7>>
Pins == DQ0..OE

---------------------------------------------------------------------------
(* Bounds of the model *)

\* frames the host sends in one run
MaxCmds == 2

\* length of the long transfer the host requests (three windows)
LongLen == 65

\* frames the host sends in one run of the liveness specification
LiveCmds == 1

---------------------------------------------------------------------------
(* Arithmetic of the target *)

Pow2(n) == 2 ^ n

\* x << n on a 32-bit long; the operands here are a byte and 16, 8 or 0, so
\* no bit is shifted out
Shl(x, n) == x * Pow2(n)

\* x >> n
Shr(x, n) == x \div Pow2(n)

RECURSIVE BitOr(_, _)
\* a | b
BitOr(a, b) ==
    IF a = 0 THEN b
    ELSE IF b = 0 THEN a
    ELSE (IF a % 2 = 1 \/ b % 2 = 1 THEN 1 ELSE 0)
         + 2 * BitOr(a \div 2, b \div 2)

\* a % b of C: the remainder of a division truncated toward zero
CRem(a, b) == IF a >= 0 THEN a % b ELSE 0 - ((0 - a) % b)

\* a value stored into an `int` that stops at INT_MAX
IntWrap_saturating(x) ==
    IF x > Pow2(INT_BITS - 1) - 1 THEN Pow2(INT_BITS - 1) - 1 ELSE x

\* a value stored into the 16-bit `int`
IntWrap(x) == ((x + Pow2(INT_BITS - 1)) % Pow2(INT_BITS)) - Pow2(INT_BITS - 1)

RECURSIVE Decimal(_)
\* Serial.print(unsigned long): the decimal digits, most significant first
Decimal(n) ==
    IF n < 10 THEN <<48 + n>>
    ELSE Append(Decimal(n \div 10), 48 + (n % 10))

---------------------------------------------------------------------------
(* Serial responses *)

return_general_error(str) == STR_NG \o str \o <<0>>

return_address_error(name, address) ==
    STR_NG \o name \o STR_address \o Decimal(address) \o STR_out_of_bounds
           \o <<0>>

send_success == STR_OK

send_continue == STR_CO

---------------------------------------------------------------------------
(* Pins and the hardware behind them *)

\* the chip's address lines are the low outputs of the shift register chain
ChipAddress(sr) == sr % Pow2(CHIP_ADDR_LINES)

\* contents of the battery-backed chip before this run wrote to it
InitialContent(a) == (a * 7 + 90) % 256

\* the byte the chip holds at address a; `chip` records the bytes written
ChipByte(chip, a) == IF a \in DOMAIN chip THEN chip[a] ELSE InitialContent(a)

\* values a data bus nobody drives properly may show
FloatBytes == {0, 255}

\* a rising edge on the 74LS164 clock shifts the data line in at Qa
ShiftIn(sr, bit) == (2 * sr + bit) % Pow2(ADDR_BITS)

digitalWrite(h, pin, val) ==
    IF pin = SERCLK /\ h.level[SERCLK] = LOW /\ val = HIGH
    THEN [h EXCEPT !.level[pin] = val,
                   !.shiftreg = ShiftIn(h.shiftreg, h.level[SERDAT]),
                   !.edges = @ + 1]
    ELSE [h EXCEPT !.level[pin] = val]

pinModeDQ(h, m) ==
    [h EXCEPT !.dir = [p \in Pins |->
                          IF \E k \in 1..8 : DQ[k] = p THEN m ELSE h.dir[p]]]

EnablesLow(h) == digitalWrite(digitalWrite(h, WE, LOW), OE, LOW)

\* read_mode with the pinMode calls of write_mode
read_mode_outputs(h) ==
    [pinModeDQ(EnablesLow(h), "OUTPUT") EXCEPT !.mode = "READ"]

read_mode(h) == [pinModeDQ(EnablesLow(h), "INPUT") EXCEPT !.mode = "READ"]

\* write_mode taking HIGH for the inactive level of the output-enable line
write_mode_oe_high(h) ==
    [pinModeDQ(digitalWrite(digitalWrite(h, WE, LOW), OE, HIGH), "OUTPUT")
        EXCEPT !.mode = "WRITE"]

write_mode(h) == [pinModeDQ(EnablesLow(h), "OUTPUT") EXCEPT !.mode = "WRITE"]

\* idle_mode with the body of write_mode: the data pins stay outputs
idle_mode_outputs(h) ==
    [pinModeDQ(EnablesLow(h), "OUTPUT") EXCEPT !.mode = "IDLE"]

idle_mode(h) == [pinModeDQ(EnablesLow(h), "INPUT") EXCEPT !.mode = "IDLE"]

\* add_address_bit setting the data line after the rising clock edge
add_address_bit_late(h, val) ==
    LET h1 == digitalWrite(h, SERCLK, LOW)
        h2 == digitalWrite(h1, SERCLK, HIGH)
        h3 == digitalWrite(h2, SERDAT, IF val # 0 THEN HIGH ELSE LOW)
    IN  digitalWrite(h3, SERCLK, LOW)

add_address_bit(h, val) ==
    LET h1 == digitalWrite(h, SERCLK, LOW)
        h2 == digitalWrite(h1, SERDAT, IF val # 0 THEN HIGH ELSE LOW)
        h3 == digitalWrite(h2, SERCLK, HIGH)
    IN  digitalWrite(h3, SERCLK, LOW)

\* (address >> (23 - i)) & 0x1
AddressBit(address, k) == Shr(address, (ADDR_BITS - 1) - k) % 2

\* the masks applied in the opposite order, 0x80 for DQ0
DataBit_reversed(b, k) == IF Shr(b, 7 - k) % 2 = 1 THEN HIGH ELSE LOW

\* (byteval & (1 << k)) ? HIGH : LOW
DataBit(b, k) == IF Shr(b, k) % 2 = 1 THEN HIGH ELSE LOW

RECURSIVE SetData(_, _, _)
\* the eight digitalWrite(DQk, ...) of write_sram, DQ0 first
SetData(h, b, k) ==
    IF k = 8 THEN h
    ELSE SetData(digitalWrite(h, DQ[k + 1], DataBit(b, k)), b, k + 1)

AllDQ(h, m) == \A k \in 1..8 : h.dir[DQ[k]] = m

\* the byte the eight data pins drive
DrivenByte(h) ==
    h.level[DQ0] + 2 * h.level[DQ1] + 4 * h.level[DQ2] + 8 * h.level[DQ3]
    + 16 * h.level[DQ4] + 32 * h.level[DQ5] + 64 * h.level[DQ6]
    + 128 * h.level[DQ7]

\* what the eight digitalRead(DQk) of read_sram can assemble: the chip drives
\* the addressed byte while output-enable is active and the pins are inputs
SampleValues(h) ==
    IF AllDQ(h, "INPUT") /\ h.level[OE] = HIGH /\ h.level[WE] = LOW
    THEN {ChipByte(h.chip, ChipAddress(h.shiftreg))}
    ELSE FloatBytes

\* what the chip can see on the bus during a write pulse
BusValues(h) ==
    IF AllDQ(h, "OUTPUT") /\ h.level[OE] = LOW
    THEN {DrivenByte(h)}
    ELSE FloatBytes

\* the chip stores the bus value at the presented address
ChipStore(h, v) ==
    LET a == ChipAddress(h.shiftreg)
    IN  [h EXCEPT !.chip = [x \in (DOMAIN h.chip) \cup {a} |->
                               IF x = a THEN v ELSE h.chip[x]]]

---------------------------------------------------------------------------
(* The host: it frames commands as the protocol lays them out, answers a   *)
(* Read's window boundaries with a token (or a wrong one) and sends a      *)
(* Write's payload one window at a time.  It sends only when the firmware  *)
(* has read everything sent before.                                        *)

CH_X == 88

\* lower-case 'r'
CH_r == 114

Instructions == {CH_R, CH_W, CH_S, CH_X, CH_r}

\* bytes that may precede a frame on the line
NoisePrefixes == {<<>>, <<CH_X>>, <<CH_S>>, <<CH_S, CH_R>>, <<0, CH_S, CH_R, 65>>}

\* (start, end) pairs the host asks for
HostRanges ==
    { <<0, 1>>, <<0, LongLen>>, <<1, 1 + WINDOW>>, <<MEM_SIZE - 1, MEM_SIZE>>,
      <<MEM_SIZE, 1>>, <<16777215, MEM_SIZE>>, <<MEM_SIZE, MEM_SIZE + 1>>,
      <<0, MEM_SIZE + 1>>, <<1, 16777215>>,
      <<0, 0>>, <<1, 1>>, <<LongLen, 1>> }

\* payload patterns of the host's Write commands
Seeds == {17, 200}

\* the k-th payload byte of a Write with the given seed
Payload(seed, k) == (seed + 5 * k) % 256

\* the host's answers at a Read window boundary
Tokens == {<<CH_C, CH_O>>, <<CH_X, CH_O>>, <<CH_C, CH_X>>}

\* a 3-byte big-endian address
Encode24(a) == <<Shr(a, 16) % 256, Shr(a, 8) % 256, a % 256>>

Frame(ins, r) ==
    SYNC \o <<ins>> \o
    (IF ins \in {CH_R, CH_W} THEN Encode24(r[1]) \o Encode24(r[2]) ELSE <<>>)

NoHost == [instr |-> 0, range |-> <<0, 0>>, seed |-> 0, sent |-> 0]

HostSendFrame ==
    /\ pc = "sync" /\ syncpos = 0 /\ wire = <<>>
    /\ nframes < MaxCmds
    /\ \E ins \in Instructions, noise \in NoisePrefixes :
         \E r \in (IF ins \in {CH_R, CH_W} THEN HostRanges ELSE {<<0, 0>>}) :
           \E seed \in (IF ins = CH_W THEN Seeds ELSE {0}) :
             /\ wire' = noise \o Frame(ins, r)
             /\ host' = [instr |-> ins, range |-> r, seed |-> seed, sent |-> 0]
    /\ nframes' = nframes + 1
    /\ UNCHANGED <<hist, pc, syncpos, instruction, startaddr, endaddr, naddr, addr,
                   cont, i, byteval, hw, out, log, ndispatch>>

HostSendToken ==
    /\ pc = "r_tokC" /\ wire = <<>>
    /\ \E t \in Tokens : wire' = t
    /\ UNCHANGED <<hist, pc, syncpos, instruction, startaddr, endaddr, naddr, addr,
                   cont, i, byteval, hw, out, log, host, nframes, ndispatch>>

\* after a Continue the host sends the next window of its payload
HostSendWindow ==
    /\ pc = "w_payload" /\ wire = <<>>
    /\ LET total == host.range[2] - host.range[1]
           n == IF total - host.sent < WINDOW THEN total - host.sent ELSE WINDOW
       IN  /\ n > 0
           /\ wire' = [k \in 1..n |-> Payload(host.seed, host.sent + k - 1)]
           /\ host' = [host EXCEPT !.sent = @ + n]
    /\ UNCHANGED <<hist, pc, syncpos, instruction, startaddr, endaddr, naddr, addr,
                   cont, i, byteval, hw, out, log, nframes, ndispatch>>

---------------------------------------------------------------------------
(* The firmware *)

\* the history of a call that starts with the hardware as h: the bytes it read
\* (nread, the address bytes, the payload), the calls of read_sram and
\* write_sram with address and value, the data indices at which a token was
\* awaited (tokAt) or Continue sent (coAt), the tokens accepted, the bytes
\* read as tokens (tokbytes), the data bytes emitted (ndata) and the bytes
\* read up to the instruction byte (head)
NewLog(h) ==
    [reads |-> <<>>, writes |-> <<>>, payload |-> <<>>, addrbytes |-> <<>>,
     tokAt |-> <<>>, tokens |-> 0, tokbytes |-> <<>>, coAt |-> <<>>,
     nread |-> 0, ndata |-> 0, head |-> <<>>, hw0 |-> h]

\* what is remembered across calls: the flow-control aborts so far, the last
\* instruction byte dispatched, and the range and payload of the last
\* completed Write
NoHist ==
    [aborts |-> 0, lastInstr |-> 0,
     lastWrite |-> [range |-> <<0, 0>>, data |-> <<>>]]

\* setup(): enable and serializer pins are outputs driven LOW; the data pins
\* are left as the reset leaves them, inputs
setup ==
    [level |-> [p \in Pins |-> LOW],
     dir |-> [p \in Pins |-> IF p \in {WE, OE, SERCLK, SERDAT}
                             THEN "OUTPUT" ELSE "INPUT"],
     shiftreg |-> 0,
     chip |-> <<>>,
     edges |-> 0,
     mode |-> "NONE"]

Init ==
    /\ pc = "sync"
    /\ syncpos = 0
    /\ instruction = 0
    /\ startaddr = 0
    /\ endaddr = 0
    /\ naddr = 0
    /\ addr = 0
    /\ cont = 0
    /\ i = 0
    /\ byteval = 0
    /\ hw = setup
    /\ wire = <<>>
    /\ out = <<>>
    /\ log = NewLog(setup)
    /\ host = NoHost
    /\ nframes = 0
    /\ ndispatch = 0
    /\ hist = NoHist

\* read_serial() returns once Serial.available(): the oldest unread byte
Available == wire # <<>>

\* the first read of a call of read_and_execute_command: a byte other than
\* 'S' returns, and loop() calls again
SyncFirst ==
    /\ pc = "sync" /\ syncpos = 0 /\ Available
    /\ wire' = Tail(wire)
    /\ syncpos' = IF Head(wire) = SYNC[1] THEN 1 ELSE 0
    /\ instruction' = 0 /\ startaddr' = 0 /\ endaddr' = 0 /\ naddr' = 0
    /\ addr' = 0 /\ cont' = 0 /\ i' = 0 /\ byteval' = 0
    /\ out' = <<>>
    /\ log' = [NewLog(hw) EXCEPT !.nread = 1, !.head = <<Head(wire)>>]
    /\ UNCHANGED <<hist, pc, hw, host, nframes, ndispatch>>

\* the sync reads answering a mismatch with an error frame
SyncNext_reports ==
    /\ pc = "sync" /\ syncpos > 0 /\ Available
    /\ wire' = Tail(wire)
    /\ log' = [log EXCEPT !.nread = @ + 1, !.head = Append(@, Head(wire))]
    /\ IF Head(wire) # SYNC[syncpos + 1]
       THEN /\ syncpos' = 0 /\ pc' = pc
            /\ out' = out \o return_general_error(STR_unknown)
       ELSE /\ out' = out
            /\ IF syncpos + 1 = Len(SYNC)
               THEN /\ syncpos' = 0 /\ pc' = "instr"
               ELSE /\ syncpos' = syncpos + 1 /\ pc' = pc
    /\ UNCHANGED <<hist, instruction, startaddr, endaddr, naddr, addr, cont, i,
                   byteval, hw, host, nframes, ndispatch>>

\* the reads that expect 'R', 'A', 'M'
SyncNext ==
    /\ pc = "sync" /\ syncpos > 0 /\ Available
    /\ wire' = Tail(wire)
    /\ log' = [log EXCEPT !.nread = @ + 1, !.head = Append(@, Head(wire))]
    /\ IF Head(wire) # SYNC[syncpos + 1]
       THEN /\ syncpos' = 0 /\ pc' = pc
       ELSE IF syncpos + 1 = Len(SYNC)
            THEN /\ syncpos' = 0 /\ pc' = "instr"
            ELSE /\ syncpos' = syncpos + 1 /\ pc' = pc
    /\ UNCHANGED <<hist, instruction, startaddr, endaddr, naddr, addr, cont, i,
                   byteval, hw, out, host, nframes, ndispatch>>

\* the chain comparing without regard to case
Dispatch_caseless(ins) ==
    IF ins \in {CH_R, CH_r} THEN "r_addr"
    ELSE IF ins = CH_W THEN "w_addr"
    ELSE IF ins = CH_S THEN "status"
    ELSE "unknown"

\* where the chain of `if (instruction == ...)` leads
Dispatch(ins) ==
    IF ins = CH_R THEN "r_addr"
    ELSE IF ins = CH_W THEN "w_addr"
    ELSE IF ins = CH_S THEN "status"
    ELSE "unknown"

ReadInstruction ==
    /\ pc = "instr" /\ Available
    /\ wire' = Tail(wire)
    /\ log' = [log EXCEPT !.nread = @ + 1, !.head = Append(@, Head(wire))]
    /\ instruction' = Head(wire)
    /\ pc' = Dispatch(Head(wire))
    /\ ndispatch' = ndispatch + 1
    /\ hist' = [hist EXCEPT !.lastInstr = Head(wire)]
    /\ UNCHANGED <<syncpos, startaddr, endaddr, naddr, addr, cont, i, byteval,
                   hw, out, host, nframes>>

\* the address after one more of its three bytes, most significant first:
\* the three read_serial() operands of `|` are taken in the order written,
\* which the language leaves to the compiler
AddressByte(a, k, b) == BitOr(a, Shl(b, 16 - 8 * k))

ReadAddressByte ==
    /\ pc \in {"r_addr", "w_addr"} /\ Available
    /\ wire' = Tail(wire)
    /\ log' = [log EXCEPT !.nread = @ + 1, !.addrbytes = Append(@, Head(wire))]
    /\ IF naddr < 3
       THEN /\ startaddr' = AddressByte(startaddr, naddr, Head(wire))
            /\ endaddr' = endaddr
       ELSE /\ endaddr' = AddressByte(endaddr, naddr - 3, Head(wire))
            /\ startaddr' = startaddr
    /\ naddr' = naddr + 1
    /\ pc' = IF naddr + 1 < 6 THEN pc
             ELSE IF pc = "r_addr" THEN "r_check" ELSE "w_check"
    /\ UNCHANGED <<hist, syncpos, instruction, addr, cont, i, byteval, hw, out, host,
                   nframes, ndispatch>>

\* the first check written as `startaddr > MEM_SIZE`
RangeError_gt(s, e) ==
    IF s > MEM_SIZE THEN return_address_error(STR_Starting, s)
    ELSE IF e > MEM_SIZE THEN return_address_error(STR_Ending, e)
    ELSE IF s >= e THEN return_general_error(STR_out_of_order)
    ELSE <<>>

\* the second error copied from the first with only the name changed
RangeError_copied(s, e) ==
    IF s >= MEM_SIZE THEN return_address_error(STR_Starting, s)
    ELSE IF e > MEM_SIZE THEN return_address_error(STR_Ending, s)
    ELSE IF s >= e THEN return_general_error(STR_out_of_order)
    ELSE <<>>

\* the third check written as `startaddr > endaddr`
RangeError_strict(s, e) ==
    IF s >= MEM_SIZE THEN return_address_error(STR_Starting, s)
    ELSE IF e > MEM_SIZE THEN return_address_error(STR_Ending, e)
    ELSE IF s > e THEN return_general_error(STR_out_of_order)
    ELSE <<>>

\* the three range checks: the error frame to send, or <<>> for a valid range
RangeError(s, e) ==
    IF s >= MEM_SIZE THEN return_address_error(STR_Starting, s)
    ELSE IF e > MEM_SIZE THEN return_address_error(STR_Ending, e)
    ELSE IF s >= e THEN return_general_error(STR_out_of_order)
    ELSE <<>>

CheckRange ==
    /\ pc \in {"r_check", "w_check"}
    /\ LET err == RangeError(startaddr, endaddr)
       IN  IF err # <<>>
           THEN /\ out' = out \o err
                /\ pc' = "sync"
           ELSE /\ out' = out
                /\ pc' = IF pc = "r_check" THEN "r_mode" ELSE "w_mode"
    /\ UNCHANGED <<hist, syncpos, instruction, startaddr, endaddr, naddr, addr, cont,
                   i, byteval, hw, wire, log, host, nframes, ndispatch>>

---------------------------------------------------------------------------
(* Read: read_mode(), "CO", then per byte a token at each window boundary, *)
(* read_sram(addr) and Serial.write                                        *)

EnterReadMode ==
    /\ pc = "r_mode"
    /\ hw' = read_mode(hw)
    /\ pc' = "r_continue"
    /\ UNCHANGED <<hist, syncpos, instruction, startaddr, endaddr, naddr, addr, cont,
                   i, byteval, wire, out, log, host, nframes, ndispatch>>

\* send_continue(), then `int cont = 0` and the loop's `addr = startaddr`
ReadContinue ==
    /\ pc = "r_continue"
    /\ out' = out \o send_continue
    /\ cont' = 0
    /\ addr' = startaddr
    /\ pc' = "r_loop"
    /\ UNCHANGED <<hist, syncpos, instruction, startaddr, endaddr, naddr, i, byteval,
                   hw, wire, log, host, nframes, ndispatch>>

\* the window test made after the increment: `++cont % 32 == 0`
AtWindow_early(c) == CRem(c + 1, WINDOW) = 0

\* the window test written as `cont % 32 == 1`
AtWindow_late(c) == CRem(c, WINDOW) = 1

\* `cont % 32 == 0`
AtWindow(c) == CRem(c, WINDOW) = 0

\* the loop bound written as `addr <= endaddr`
InRange_inclusive(a, e) == a <= e

\* the loop bound written as `addr < endaddr - 1`
InRange_short(a, e) == a + 1 < e

\* `addr < endaddr`
InRange(a, e) == a < e

\* the loop test and the window test; cont++ when no token is due
ReadLoop ==
    /\ pc = "r_loop"
    /\ IF ~InRange(addr, endaddr)
       THEN /\ pc' = "r_success"
            /\ UNCHANGED <<hist, cont, log>>
       ELSE IF AtWindow(cont)
            THEN /\ pc' = "r_tokC"
                 /\ log' = [log EXCEPT !.tokAt = Append(@, addr - startaddr)]
                 /\ cont' = cont
            ELSE /\ pc' = "rs_begin"
                 /\ cont' = IntWrap(cont + 1)
                 /\ log' = log
    /\ UNCHANGED <<hist, syncpos, instruction, startaddr, endaddr, naddr, addr, i,
                   byteval, hw, wire, out, host, nframes, ndispatch>>

ReadTokenC ==
    /\ pc = "r_tokC" /\ Available
    /\ wire' = Tail(wire)
    /\ log' = [log EXCEPT !.nread = @ + 1, !.tokbytes = Append(@, Head(wire))]
    /\ IF Head(wire) # CH_C
       THEN /\ out' = out \o return_general_error(STR_unexpected)
            /\ pc' = "sync"
            /\ hist' = [hist EXCEPT !.aborts = @ + 1]
       ELSE /\ out' = out
            /\ pc' = "r_tokO"
            /\ hist' = hist
    /\ UNCHANGED <<syncpos, instruction, startaddr, endaddr, naddr, addr, cont,
                   i, byteval, hw, host, nframes, ndispatch>>

\* the second token test with its `return` missing: the error is sent and
\* the loop goes on
ReadTokenO_no_return ==
    /\ pc = "r_tokO" /\ Available
    /\ wire' = Tail(wire)
    /\ IF Head(wire) # CH_O
       THEN /\ out' = out \o return_general_error(STR_unexpected)
            /\ pc' = "rs_begin"
            /\ cont' = IntWrap(cont + 1)
            /\ log' = [log EXCEPT !.nread = @ + 1,
                               !.tokbytes = Append(@, Head(wire))]
            /\ hist' = [hist EXCEPT !.aborts = @ + 1]
       ELSE /\ out' = out
            /\ pc' = "rs_begin"
            /\ cont' = IntWrap(cont + 1)
            /\ log' = [log EXCEPT !.nread = @ + 1, !.tokens = @ + 1,
                               !.tokbytes = Append(@, Head(wire))]
            /\ hist' = hist
    /\ UNCHANGED <<syncpos, instruction, startaddr, endaddr, naddr, addr, i,
                   byteval, hw, host, nframes, ndispatch>>

ReadTokenO ==
    /\ pc = "r_tokO" /\ Available
    /\ wire' = Tail(wire)
    /\ IF Head(wire) # CH_O
       THEN /\ out' = out \o return_general_error(STR_unexpected)
            /\ pc' = "sync"
            /\ cont' = cont
            /\ log' = [log EXCEPT !.nread = @ + 1,
                               !.tokbytes = Append(@, Head(wire))]
            /\ hist' = [hist EXCEPT !.aborts = @ + 1]
       ELSE /\ out' = out
            /\ pc' = "rs_begin"
            /\ cont' = IntWrap(cont + 1)
            /\ log' = [log EXCEPT !.nread = @ + 1, !.tokens = @ + 1,
                               !.tokbytes = Append(@, Head(wire))]
            /\ hist' = hist
    /\ UNCHANGED <<syncpos, instruction, startaddr, endaddr, naddr, addr, i,
                   byteval, hw, host, nframes, ndispatch>>

\* read_sram: digitalWrite(OE, LOW) before the address is clocked out
RsBegin ==
    /\ pc = "rs_begin"
    /\ hw' = [digitalWrite(hw, OE, LOW) EXCEPT !.edges = 0]
    /\ i' = 0
    /\ pc' = "rs_shift"
    /\ UNCHANGED <<hist, syncpos, instruction, startaddr, endaddr, naddr, addr, cont,
                   byteval, wire, out, log, host, nframes, ndispatch>>

\* one pass of `for (i = 0; i < 24; i++) add_address_bit(...)`
ShiftStep(h, address, k) == add_address_bit(h, AddressBit(address, k))

\* the address loop of read_sram written as `i < 23`
RsShift_short ==
    /\ pc = "rs_shift" /\ i < ADDR_BITS - 1
    /\ hw' = ShiftStep(hw, addr, i)
    /\ i' = i + 1
    /\ pc' = IF i + 1 < ADDR_BITS - 1 THEN pc ELSE "rs_enable"
    /\ UNCHANGED <<hist, syncpos, instruction, startaddr, endaddr, naddr, addr, cont,
                   byteval, wire, out, log, host, nframes, ndispatch>>

RsShift ==
    /\ pc = "rs_shift" /\ i < ADDR_BITS
    /\ hw' = ShiftStep(hw, addr, i)
    /\ i' = i + 1
    /\ pc' = IF i + 1 < ADDR_BITS THEN pc ELSE "rs_enable"
    /\ UNCHANGED <<hist, syncpos, instruction, startaddr, endaddr, naddr, addr, cont,
                   byteval, wire, out, log, host, nframes, ndispatch>>

RsEnable ==
    /\ pc = "rs_enable"
    /\ hw' = digitalWrite(hw, OE, HIGH)
    /\ pc' = "rs_sample"
    /\ UNCHANGED <<hist, syncpos, instruction, startaddr, endaddr, naddr, addr, cont,
                   i, byteval, wire, out, log, host, nframes, ndispatch>>

RsSample ==
    /\ pc = "rs_sample"
    /\ \E v \in SampleValues(hw) : byteval' = v
    /\ pc' = "rs_disable"
    /\ UNCHANGED <<hist, syncpos, instruction, startaddr, endaddr, naddr, addr, cont,
                   i, hw, wire, out, log, host, nframes, ndispatch>>

\* digitalWrite(OE, LOW) and return byteval
RsDisable ==
    /\ pc = "rs_disable"
    /\ hw' = digitalWrite(hw, OE, LOW)
    /\ log' = [log EXCEPT !.reads = Append(@, <<addr, byteval>>)]
    /\ pc' = "r_emit"
    /\ UNCHANGED <<hist, syncpos, instruction, startaddr, endaddr, naddr, addr, cont,
                   i, byteval, wire, out, host, nframes, ndispatch>>

\* Serial.write(read_sram(addr)) and the loop's addr++
ReadEmit ==
    /\ pc = "r_emit"
    /\ out' = Append(out, byteval)
    /\ log' = [log EXCEPT !.ndata = @ + 1]
    /\ addr' = addr + 1
    /\ pc' = "r_loop"
    /\ UNCHANGED <<hist, syncpos, instruction, startaddr, endaddr, naddr, cont, i,
                   byteval, hw, wire, host, nframes, ndispatch>>

ReadSuccess ==
    /\ pc = "r_success"
    /\ out' = out \o send_success
    /\ pc' = "r_idle"
    /\ UNCHANGED <<hist, syncpos, instruction, startaddr, endaddr, naddr, addr, cont,
                   i, byteval, hw, wire, log, host, nframes, ndispatch>>

ReadIdle ==
    /\ pc = "r_idle"
    /\ hw' = idle_mode(hw)
    /\ pc' = "sync"
    /\ UNCHANGED <<hist, syncpos, instruction, startaddr, endaddr, naddr, addr, cont,
                   i, byteval, wire, out, log, host, nframes, ndispatch>>

---------------------------------------------------------------------------
(* Write: write_mode(), then per byte "CO" at each window boundary, one    *)
(* payload byte and write_sram(addr, byte)                                 *)

\* the Write loop starting at address 0 instead of startaddr
EnterWriteMode_from_zero ==
    /\ pc = "w_mode"
    /\ hw' = write_mode(hw)
    /\ cont' = 0
    /\ addr' = 0
    /\ pc' = "w_loop"
    /\ UNCHANGED <<hist, syncpos, instruction, startaddr, endaddr, naddr, i, byteval,
                   wire, out, log, host, nframes, ndispatch>>

\* write_mode(), then `int cont = 0` and the loop's `addr = startaddr`
EnterWriteMode ==
    /\ pc = "w_mode"
    /\ hw' = write_mode(hw)
    /\ cont' = 0
    /\ addr' = startaddr
    /\ pc' = "w_loop"
    /\ UNCHANGED <<hist, syncpos, instruction, startaddr, endaddr, naddr, i, byteval,
                   wire, out, log, host, nframes, ndispatch>>

WriteLoop ==
    /\ pc = "w_loop"
    /\ IF ~InRange(addr, endaddr)
       THEN /\ pc' = "w_success"
            /\ cont' = cont
       ELSE IF AtWindow(cont)
            THEN /\ pc' = "w_continue"
                 /\ cont' = cont
            ELSE /\ pc' = "w_payload"
                 /\ cont' = IntWrap(cont + 1)
    /\ UNCHANGED <<hist, syncpos, instruction, startaddr, endaddr, naddr, addr, i,
                   byteval, hw, wire, out, log, host, nframes, ndispatch>>

\* send_continue() at a window boundary, then cont++
WriteContinue ==
    /\ pc = "w_continue"
    /\ out' = out \o send_continue
    /\ log' = [log EXCEPT !.coAt = Append(@, addr - startaddr)]
    /\ cont' = IntWrap(cont + 1)
    /\ pc' = "w_payload"
    /\ UNCHANGED <<hist, syncpos, instruction, startaddr, endaddr, naddr, addr, i,
                   byteval, hw, wire, host, nframes, ndispatch>>

\* the read_serial() that is write_sram's second argument
WritePayload ==
    /\ pc = "w_payload" /\ Available
    /\ wire' = Tail(wire)
    /\ byteval' = Head(wire)
    /\ log' = [log EXCEPT !.nread = @ + 1, !.payload = Append(@, Head(wire))]
    /\ pc' = "ws_begin"
    /\ UNCHANGED <<hist, syncpos, instruction, startaddr, endaddr, naddr, addr, cont,
                   i, hw, out, host, nframes, ndispatch>>

\* write_sram: digitalWrite(WE, LOW) before the address is clocked out
WsBegin ==
    /\ pc = "ws_begin"
    /\ hw' = [digitalWrite(hw, WE, LOW) EXCEPT !.edges = 0]
    /\ log' = [log EXCEPT !.writes = Append(@, <<addr, byteval>>)]
    /\ i' = 0
    /\ pc' = "ws_shift"
    /\ UNCHANGED <<hist, syncpos, instruction, startaddr, endaddr, naddr, addr, cont,
                   byteval, wire, out, host, nframes, ndispatch>>

WsShift ==
    /\ pc = "ws_shift" /\ i < ADDR_BITS
    /\ hw' = ShiftStep(hw, addr, i)
    /\ i' = i + 1
    /\ pc' = IF i + 1 < ADDR_BITS THEN pc ELSE "ws_data"
    /\ UNCHANGED <<hist, syncpos, instruction, startaddr, endaddr, naddr, addr, cont,
                   byteval, wire, out, log, host, nframes, ndispatch>>

\* the data pins take the bits of byteval
WsData ==
    /\ pc = "ws_data"
    /\ hw' = SetData(hw, byteval, 0)
    /\ pc' = "ws_pulse"
    /\ UNCHANGED <<hist, syncpos, instruction, startaddr, endaddr, naddr, addr, cont,
                   i, byteval, wire, out, log, host, nframes, ndispatch>>

\* digitalWrite(WE, HIGH): the chip takes the bus value
WsPulse ==
    /\ pc = "ws_pulse"
    /\ \E v \in BusValues(hw) : hw' = ChipStore(digitalWrite(hw, WE, HIGH), v)
    /\ pc' = "ws_end"
    /\ UNCHANGED <<hist, syncpos, instruction, startaddr, endaddr, naddr, addr, cont,
                   i, byteval, wire, out, log, host, nframes, ndispatch>>

\* the Write loop without its `addr++`
WsEnd_no_increment ==
    /\ pc = "ws_end"
    /\ hw' = digitalWrite(hw, WE, LOW)
    /\ addr' = addr
    /\ pc' = "w_loop"
    /\ UNCHANGED <<hist, syncpos, instruction, startaddr, endaddr, naddr, cont, i,
                   byteval, wire, out, log, host, nframes, ndispatch>>

\* digitalWrite(WE, LOW), return, and the loop's addr++
WsEnd ==
    /\ pc = "ws_end"
    /\ hw' = digitalWrite(hw, WE, LOW)
    /\ addr' = addr + 1
    /\ pc' = "w_loop"
    /\ UNCHANGED <<hist, syncpos, instruction, startaddr, endaddr, naddr, cont, i,
                   byteval, wire, out, log, host, nframes, ndispatch>>

WriteSuccess ==
    /\ pc = "w_success"
    /\ out' = out \o send_success
    /\ pc' = "w_idle"
    /\ hist' = [hist EXCEPT !.lastWrite = [range |-> <<startaddr, endaddr>>,
                                           data |-> log.payload]]
    /\ UNCHANGED <<syncpos, instruction, startaddr, endaddr, naddr, addr, cont,
                   i, byteval, hw, wire, log, host, nframes, ndispatch>>

WriteIdle ==
    /\ pc = "w_idle"
    /\ hw' = idle_mode(hw)
    /\ pc' = "sync"
    /\ UNCHANGED <<hist, syncpos, instruction, startaddr, endaddr, naddr, addr, cont,
                   i, byteval, wire, out, log, host, nframes, ndispatch>>

---------------------------------------------------------------------------
(* Status and unknown instructions *)

\* the Status branch ending in idle_mode() as the Read and Write branches do
Status_idle ==
    /\ pc = "status"
    /\ out' = out \o send_success
    /\ hw' = idle_mode(hw)
    /\ pc' = "sync"
    /\ UNCHANGED <<hist, syncpos, instruction, startaddr, endaddr, naddr, addr, cont,
                   i, byteval, wire, log, host, nframes, ndispatch>>

Status ==
    /\ pc = "status"
    /\ out' = out \o send_success
    /\ pc' = "sync"
    /\ UNCHANGED <<hist, syncpos, instruction, startaddr, endaddr, naddr, addr, cont,
                   i, byteval, hw, wire, log, host, nframes, ndispatch>>

Unknown ==
    /\ pc = "unknown"
    /\ out' = out \o return_general_error(STR_unknown)
    /\ pc' = "sync"
    /\ UNCHANGED <<hist, syncpos, instruction, startaddr, endaddr, naddr, addr, cont,
                   i, byteval, hw, wire, log, host, nframes, ndispatch>>

---------------------------------------------------------------------------

Next ==
    \/ HostSendFrame
    \/ HostSendToken
    \/ HostSendWindow
    \/ SyncFirst
    \/ SyncNext
    \/ ReadInstruction
    \/ ReadAddressByte
    \/ CheckRange
    \/ EnterReadMode
    \/ ReadContinue
    \/ ReadLoop
    \/ ReadTokenC
    \/ ReadTokenO
    \/ RsBegin
    \/ RsShift
    \/ RsEnable
    \/ RsSample
    \/ RsDisable
    \/ ReadEmit
    \/ ReadSuccess
    \/ ReadIdle
    \/ EnterWriteMode
    \/ WriteLoop
    \/ WriteContinue
    \/ WritePayload
    \/ WsBegin
    \/ WsShift
    \/ WsData
    \/ WsPulse
    \/ WsEnd
    \/ WriteSuccess
    \/ WriteIdle
    \/ Status
    \/ Unknown

Spec == Init /\ [][Next]_vars

\* the steps of the firmware, as opposed to those of the host
Firmware ==
    \/ SyncFirst \/ SyncNext \/ ReadInstruction \/ ReadAddressByte
    \/ CheckRange
    \/ EnterReadMode \/ ReadContinue \/ ReadLoop \/ ReadTokenC \/ ReadTokenO
    \/ RsBegin \/ RsShift \/ RsEnable \/ RsSample \/ RsDisable
    \/ ReadEmit \/ ReadSuccess \/ ReadIdle
    \/ EnterWriteMode \/ WriteLoop \/ WriteContinue \/ WritePayload
    \/ WsBegin \/ WsShift \/ WsData \/ WsPulse \/ WsEnd
    \/ WriteSuccess \/ WriteIdle
    \/ Status \/ Unknown

\* the firmware is one sequential program that runs whenever it can, and the
\* host answers every wait of a command it has begun: a token at each Read
\* window boundary, the next window of payload in a Write
LiveNext == Next /\ nframes' <= LiveCmds

LiveSpec ==
    /\ Init /\ [][LiveNext]_vars
    /\ WF_vars(Firmware)
    /\ WF_vars(HostSendToken)
    /\ WF_vars(HostSendWindow)

---------------------------------------------------------------------------
(* The address-shifting loop of read_sram and write_sram on its own, for    *)
(* addresses over the whole 24 bits and shift registers holding anything    *)

\* addresses passed to read_sram / write_sram
SerAddresses ==
    {0, 1, 2, MEM_SIZE - 1, MEM_SIZE, 65536, 4660, 8388608, 11184810, 5592405,
     16777214, 16777215}

\* what the shift registers hold when the loop starts
SerPrevious == {0, 1, 5592405, 11184810, 16777215}

SerInit ==
    /\ \E m \in {"R", "W"}, p \in SerPrevious, lv \in {LOW, HIGH} :
         LET h0 == [setup EXCEPT !.shiftreg = p, !.level[SERDAT] = lv]
         IN  /\ pc = (IF m = "R" THEN "rs_begin" ELSE "ws_begin")
             /\ hw = (IF m = "R" THEN read_mode(h0) ELSE write_mode(h0))
             /\ log = NewLog(hw)
    /\ addr \in SerAddresses
    /\ syncpos = 0 /\ instruction = 0 /\ startaddr = 0 /\ endaddr = 0
    /\ naddr = 0 /\ cont = 0 /\ i = 0 /\ byteval = 0
    /\ wire = <<>> /\ out = <<>>
    /\ host = NoHost /\ nframes = 0 /\ ndispatch = 0 /\ hist = NoHist

SerNext == RsBegin \/ RsShift \/ WsBegin \/ WsShift

SerSpec == SerInit /\ [][SerNext]_vars

---------------------------------------------------------------------------
(* The window counter of the Read and Write loops on its own, over         *)
(* transfers of up to MEM_SIZE bytes                                       *)

\* `cont++`: past INT_MAX the increment overflows a signed int; the counter
\* either wraps in its 16 bits or is carried in a wider register
Incremented(c) ==
    IF c + 1 > Pow2(INT_BITS - 1) - 1 THEN {IntWrap(c + 1), c + 1} ELSE {c + 1}

CntInit ==
    /\ pc = "count"
    /\ startaddr \in {0, 1}
    /\ addr = startaddr
    /\ endaddr = MEM_SIZE
    /\ cont = 0
    /\ syncpos = 0 /\ instruction = 0 /\ naddr = 0 /\ i = 0 /\ byteval = 0
    /\ hw = setup /\ log = NewLog(setup)
    /\ wire = <<>> /\ out = <<>>
    /\ host = NoHost /\ nframes = 0 /\ ndispatch = 0 /\ hist = NoHist

\* one pass of the loop as far as the counter goes: the loop test, `cont++`
\* and `addr++`
CountPass ==
    /\ pc = "count"
    /\ InRange(addr, endaddr)
    /\ \E c \in Incremented(cont) : cont' = c
    /\ addr' = addr + 1
    /\ UNCHANGED <<hist, pc, syncpos, instruction, startaddr, endaddr, naddr, i,
                   byteval, hw, wire, out, log, host, nframes, ndispatch>>

CntNext == CountPass

CntSpec == CntInit /\ [][CntNext]_vars

---------------------------------------------------------------------------
(* Properties *)

\* the wait-for-sync point: loop() has called read_and_execute_command and
\* no byte of a frame has been matched
Returned == pc = "sync" /\ syncpos = 0

\* three bytes, most significant first
BigEndian(bs, k) == bs[k] * 65536 + bs[k + 1] * 256 + bs[k + 2]

\* start and end as the host put them on the line
SentStart == BigEndian(log.addrbytes, 1)

SentEnd == BigEndian(log.addrbytes, 4)

\* a Read / Write whose six address bytes have been read and checked
InCommand(ins) ==
    /\ instruction = ins
    /\ Len(log.addrbytes) = 6
    /\ pc \notin {"r_check", "w_check"}

ValidRange(s, e) == 0 <= s /\ s < e /\ e <= MEM_SIZE

Ceil(n, w) == (n + w - 1) \div w

RECURSIVE Repeat(_, _)
Repeat(str, k) == IF k = 0 THEN <<>> ELSE str \o Repeat(str, k - 1)

\* the values of a log of <<address, value>> pairs
Values(lg) == [k \in 1..Len(lg) |-> lg[k][2]]

\* every window boundary of the call so far was answered with 'C','O'
AllTokensAccepted == log.tokens = Len(log.tokAt)

\* C1: a Read of a valid range whose window boundaries the host all answered
\* with 'C','O' has, when it returns, emitted exactly "CO", then end - start
\* data bytes, the k-th being what read_sram returned for start + k, the
\* addresses ascending from start, then "OK", and nothing else.
C1_ReadEmitsRange ==
    (Returned /\ InCommand(CH_R) /\ ValidRange(SentStart, SentEnd)
     /\ AllTokensAccepted)
    => LET n == SentEnd - SentStart
       IN  /\ Len(log.reads) = n
           /\ \A k \in 1..n : log.reads[k][1] = SentStart + k - 1
           /\ out = STR_CO \o Values(log.reads) \o STR_OK

\* C1 witness: a completed Read of the long range, three windows
C1_Witness ==
    /\ Returned /\ InCommand(CH_R) /\ AllTokensAccepted
    /\ SentStart = 0 /\ SentEnd = LongLen
    /\ Len(log.reads) = LongLen
    /\ Len(out) = LongLen + 4

\* C2: a Write of a valid range reads, after the 6 address bytes, one payload
\* byte per address and no more, calls write_sram once per address, ascending
\* from start, with the k-th payload byte for start + k, and when it returns
\* has consumed exactly end - start payload bytes and emitted, after its
\* Continue tokens, exactly one "OK".
C2_WriteConsumesRange ==
    (InCommand(CH_W) /\ ValidRange(SentStart, SentEnd))
    => LET n == SentEnd - SentStart
       IN  /\ Len(log.payload) <= n
           /\ Len(log.writes) <= Len(log.payload)
           /\ \A k \in 1..Len(log.writes) :
                log.writes[k] = <<SentStart + k - 1, log.payload[k]>>
           /\ log.nread = 11 + Len(log.payload)
           /\ (pc = "w_payload" => Len(log.payload) < n)
           /\ (Returned => /\ Len(log.payload) = n
                           /\ Len(log.writes) = n
                           /\ out = Repeat(STR_CO, Len(log.coAt)) \o STR_OK)

\* C2 witness: a completed Write of the long range
C2_Witness ==
    /\ Returned /\ InCommand(CH_W)
    /\ SentStart = 0 /\ SentEnd = LongLen
    /\ Len(log.writes) = LongLen
    /\ log.writes[LongLen] = <<LongLen - 1, Payload(host.seed, LongLen - 1)>>

\* C3: a completed Read of the range of the last completed Write emits as its
\* payload exactly the bytes that Write was given.
C3_RoundTrip ==
    (Returned /\ InCommand(CH_R) /\ ValidRange(SentStart, SentEnd)
     /\ AllTokensAccepted
     /\ hist.lastWrite.range = <<SentStart, SentEnd>>)
    => out = STR_CO \o hist.lastWrite.data \o STR_OK

\* C3 witness: the long range written, then read back
C3_Witness ==
    /\ Returned /\ InCommand(CH_R) /\ AllTokensAccepted
    /\ hist.lastWrite.range = <<0, LongLen>>
    /\ <<SentStart, SentEnd>> = <<0, LongLen>>
    /\ Len(hist.lastWrite.data) = LongLen
    /\ hist.lastWrite.data # [k \in 1..LongLen |-> InitialContent(k - 1)]

\* WE and OE inactive and the eight data pins inputs
PinsIdle(h) == h.level[WE] = LOW /\ h.level[OE] = LOW /\ AllDQ(h, "INPUT")

\* out ends with "OK"
EndsWithOK ==
    Len(out) >= 2 /\ SubSeq(out, Len(out) - 1, Len(out)) = STR_OK

\* C4 as stated: at the wait-for-sync point idle_mode() was the last mode
\* function executed, or none has run since setup().
C4_IdleAtSync == Returned => hw.mode \in {"IDLE", "NONE"}

\* C4 as amended: at the wait-for-sync point WE and OE are inactive and the
\* data pins are inputs; the last mode function is idle_mode() (or none has
\* run), except that it is read_mode() once a Read has been aborted on a
\* flow-control mismatch; it is idle_mode() after every Read or Write that
\* ended in "OK", and read_mode() after a Read aborted at a window boundary.
C4_IdlePinsAtSync ==
    Returned
    => /\ PinsIdle(hw)
       /\ \/ hw.mode \in {"IDLE", "NONE"}
          \/ hw.mode = "READ" /\ hist.aborts > 0
       /\ (instruction \in {CH_R, CH_W} /\ EndsWithOK => hw.mode = "IDLE")
       /\ (InCommand(CH_R) /\ ValidRange(SentStart, SentEnd)
           /\ ~AllTokensAccepted => hw.mode = "READ")

\* C4 witness: back at the wait-for-sync point after a Read aborted at its
\* second window boundary
C4_Witness ==
    /\ Returned /\ InCommand(CH_R) /\ ~AllTokensAccepted
    /\ log.ndata = WINDOW
    /\ hw.mode = "READ" /\ PinsIdle(hw)

\* C5: WE and OE are never HIGH at the same time.
C5_EnablesExclusive == ~(hw.level[WE] = HIGH /\ hw.level[OE] = HIGH)

\* C5 witness: a write pulse of a Write that follows an aborted Read
C5_Witness ==
    /\ hw.level[WE] = HIGH /\ hw.level[OE] = LOW
    /\ hist.aborts > 0
    /\ pc = "ws_end"

\* the positions inside read_sram
InReadSram == pc \in {"rs_begin", "rs_shift", "rs_enable", "rs_sample", "rs_disable"}

\* C6: in a valid Read the firmware waits for a token exactly at the data
\* indices 0, 32, 64, ..., reads and emits no byte of a window before that
\* window's token was accepted (data bytes <= 32 * tokens accepted at every
\* point), and a Read that completes has accepted ceil(n/32) tokens.
C6_ReadFlowControl ==
    (InCommand(CH_R) /\ ValidRange(SentStart, SentEnd))
    => LET n == SentEnd - SentStart
       IN  /\ \A k \in 1..Len(log.tokAt) : log.tokAt[k] = WINDOW * (k - 1)
           /\ Len(log.tokAt) <= Ceil(n, WINDOW)
           /\ log.tokens <= Len(log.tokAt)
           /\ log.ndata <= WINDOW * log.tokens
           /\ Len(log.reads) <= WINDOW * log.tokens
           /\ (pc \in {"r_tokC", "r_tokO"}
               => /\ addr - SentStart = WINDOW * log.tokens
                  /\ log.ndata = WINDOW * log.tokens
                  /\ Len(log.tokAt) = log.tokens + 1)
           /\ (InReadSram => addr - SentStart < WINDOW * log.tokens)
           /\ (Returned /\ AllTokensAccepted
               => log.tokens = Ceil(n, WINDOW) /\ log.ndata = n)

\* C6 witness: a completed Read of the long range waited at 0, 32 and 64
C6_Witness ==
    /\ Returned /\ InCommand(CH_R)
    /\ SentEnd - SentStart = LongLen
    /\ log.tokAt = <<0, 32, 64>>
    /\ log.tokens = 3
    /\ log.ndata = LongLen

\* C7: in a valid Write the firmware emits "CO" exactly at the payload indices
\* 0, 32, 64, ..., each before it waits for the first payload byte of that
\* window (payload bytes consumed <= 32 * "CO" emitted at every point), and
\* a completed Write has emitted ceil(n/32) of them.
C7_WriteFlowControl ==
    (InCommand(CH_W) /\ ValidRange(SentStart, SentEnd))
    => LET n == SentEnd - SentStart
       IN  /\ \A k \in 1..Len(log.coAt) : log.coAt[k] = WINDOW * (k - 1)
           /\ Len(log.coAt) <= Ceil(n, WINDOW)
           /\ Len(log.payload) <= WINDOW * Len(log.coAt)
           /\ (pc = "w_payload" => Len(log.payload) < WINDOW * Len(log.coAt))
           /\ (~Returned /\ pc # "w_idle"
               => out = Repeat(STR_CO, Len(log.coAt)))
           /\ (Returned => /\ Len(log.coAt) = Ceil(n, WINDOW)
                           /\ out = Repeat(STR_CO, Ceil(n, WINDOW)) \o STR_OK)

\* C7 witness: a completed Write of the long range sent "CO" at 0, 32 and 64
C7_Witness ==
    /\ Returned /\ InCommand(CH_W)
    /\ SentEnd - SentStart = LongLen
    /\ log.coAt = <<0, 32, 64>>
    /\ Len(log.payload) = LongLen

\* C8 as stated: every frame the host sends while the firmware is at the
\* wait-for-sync point is dispatched with its instruction byte, whatever
\* bytes preceded it: once the firmware has read all the host sent, it has
\* dispatched as many instructions as frames were sent, each the frame's own.
C8_SyncRealigns ==
    wire = <<>> => /\ ndispatch = nframes
                   /\ hist.lastInstr = host.instr

\* the error frame of an address check
AddressErrorFrame(name, a) ==
    STR_NG \o name \o STR_address \o Decimal(a) \o STR_out_of_bounds \o <<0>>

\* no Continue, data byte, payload byte, token wait or chip access in this
\* call, and pins, shift registers and chip as they were when it began
NothingExchanged ==
    /\ log.reads = <<>> /\ log.writes = <<>> /\ log.payload = <<>>
    /\ log.tokAt = <<>> /\ log.coAt = <<>> /\ log.ndata = 0
    /\ log.nread = 11
    /\ hw = log.hw0

\* C9: a Read or Write whose start address, the first three address bytes
\* taken big-endian, is >= MEM_SIZE returns having emitted only the frame
\* "NG" "Starting address <decimal start> out of bounds!" 0x00, with no range
\* data exchanged and no mode function or chip access executed.
C9_StartOutOfBounds ==
    (instruction \in {CH_R, CH_W} /\ Len(log.addrbytes) = 6
     /\ pc \notin {"r_check", "w_check"} /\ SentStart >= MEM_SIZE)
    => /\ Returned
       /\ out = AddressErrorFrame(STR_Starting, SentStart)
       /\ NothingExchanged

\* C9 witness: start = MEM_SIZE answered with "Starting address 131072 ..."
C9_Witness ==
    /\ Returned /\ InCommand(CH_W)
    /\ SentStart = MEM_SIZE
    /\ out = STR_NG \o STR_Starting \o STR_address \o <<49, 51, 49, 48, 55, 50>>
             \o STR_out_of_bounds \o <<0>>
    /\ hw = log.hw0

\* out is an error frame whose text begins with "Ending"
NamesEnding ==
    /\ Len(out) >= 8
    /\ SubSeq(out, 1, 8) = STR_NG \o STR_Ending

\* C10 as stated: a Read or Write whose end address is > MEM_SIZE is answered
\* with an error frame naming "Ending", whatever its start address.
C10_EndOutOfBounds ==
    (instruction \in {CH_R, CH_W} /\ Len(log.addrbytes) = 6
     /\ pc \notin {"r_check", "w_check"} /\ SentEnd > MEM_SIZE)
    => Returned /\ NamesEnding

\* C10 as amended: a Read or Write whose end address is > MEM_SIZE and whose
\* start address is < MEM_SIZE is answered with only the frame "NG" "Ending
\* address <decimal end> out of bounds!" 0x00; when the start address is
\* >= MEM_SIZE too, the frame names "Starting" and the start address.  No
\* range data is exchanged either way.
C10_EndOutOfBoundsStartInBounds ==
    (instruction \in {CH_R, CH_W} /\ Len(log.addrbytes) = 6
     /\ pc \notin {"r_check", "w_check"} /\ SentEnd > MEM_SIZE)
    => /\ Returned
       /\ NothingExchanged
       /\ out = IF SentStart < MEM_SIZE
                THEN AddressErrorFrame(STR_Ending, SentEnd)
                ELSE AddressErrorFrame(STR_Starting, SentStart)

\* C10 witness: start 0, end MEM_SIZE + 1 answered with "Ending address
\* 131073 ..."
C10_Witness ==
    /\ Returned /\ InCommand(CH_R)
    /\ SentStart = 0 /\ SentEnd = MEM_SIZE + 1
    /\ out = STR_NG \o STR_Ending \o STR_address \o <<49, 51, 49, 48, 55, 51>>
             \o STR_out_of_bounds \o <<0>>

\* C11: a Read or Write with start < MEM_SIZE, end <= MEM_SIZE and
\* start >= end (start = end included) returns having emitted only the frame
\* "NG" "Address bounds out of order!" 0x00, with no range data exchanged and
\* mode, pins, shift register and chip contents as they were.
C11_OutOfOrder ==
    (instruction \in {CH_R, CH_W} /\ Len(log.addrbytes) = 6
     /\ pc \notin {"r_check", "w_check"}
     /\ SentStart < MEM_SIZE /\ SentEnd <= MEM_SIZE /\ SentStart >= SentEnd)
    => /\ Returned
       /\ out = STR_NG \o STR_out_of_order \o <<0>>
       /\ NothingExchanged

\* C11 witness: a Read of the empty range [1, 1) answered with the general
\* error frame
C11_Witness ==
    /\ Returned /\ InCommand(CH_R)
    /\ SentStart = 1 /\ SentEnd = 1
    /\ out = STR_NG \o STR_out_of_order \o <<0>>
    /\ hw = log.hw0

\* some byte read as a token was not the expected one of 'C','O'
BadToken ==
    \E k \in 1..Len(log.tokbytes) :
        log.tokbytes[k] # (IF k % 2 = 1 THEN CH_C ELSE CH_O)

\* C12: in a valid Read, as soon as a byte read at a window boundary is not
\* the expected one of 'C','O' the call returns to the wait-for-sync point:
\* that byte is the last the call read, the output is "CO", the data of the
\* windows accepted before, and one frame "NG" "Unexpected continuation from
\* client!" 0x00; no data byte of the refused window, no read_sram for it and
\* no "OK" follow.  A token is accepted only when it is 'C' then 'O'.
C12_ReadAbort ==
    (InCommand(CH_R) /\ ValidRange(SentStart, SentEnd))
    => /\ BadToken
          => /\ Returned
             /\ \A k \in 1..(Len(log.tokbytes) - 1) :
                    log.tokbytes[k] = (IF k % 2 = 1 THEN CH_C ELSE CH_O)
             /\ log.tokens = (Len(log.tokbytes) - 1) \div 2
             /\ log.nread = 11 + Len(log.tokbytes)
             /\ Len(log.reads) = WINDOW * log.tokens
             /\ log.ndata = WINDOW * log.tokens
             /\ out = STR_CO \o Values(log.reads) \o STR_NG \o STR_unexpected
                      \o <<0>>
       /\ ~BadToken => log.tokens = Len(log.tokbytes) \div 2

\* C12 witness: a Read refused at its second window boundary on the second
\* byte of the token, after 32 data bytes
C12_Witness ==
    /\ Returned /\ InCommand(CH_R) /\ ValidRange(SentStart, SentEnd)
    /\ log.tokbytes = <<CH_C, CH_O, CH_C, CH_X>>
    /\ log.ndata = WINDOW
    /\ Len(out) = 2 + WINDOW + 2 + Len(STR_unexpected) + 1

\* C13: a Status command, whatever ran before it, emits exactly "OK", reads
\* nothing after the instruction byte (5 bytes in the call) and leaves mode,
\* enable lines, data-pin directions, shift register and chip as they were
\* when the call began.
C13_StatusOnlyOK ==
    (instruction = CH_S /\ pc \notin {"instr"})
    => /\ log.nread = Len(SYNC) + 1
       /\ hw = log.hw0
       /\ \/ pc = "status" /\ out = <<>>
          \/ Returned /\ out = STR_OK

\* C13 witness: Status answered after a Read was refused at a window boundary
\* and left read_mode() as the last mode function
C13_Witness ==
    /\ Returned /\ instruction = CH_S /\ out = STR_OK
    /\ hw.mode = "READ" /\ hist.aborts > 0

\* C14: an instruction byte other than 'R', 'W' and 'S' after a matched sync
\* is answered with exactly the frame "NG" "Unknown command!" 0x00; the call
\* reads nothing after the instruction byte and leaves mode, pins, shift
\* register and chip as they were when it began.
C14_UnknownInstruction ==
    (instruction # 0 /\ instruction \notin {CH_R, CH_W, CH_S})
    => /\ log.nread = Len(SYNC) + 1
       /\ hw = log.hw0
       /\ \/ pc = "unknown" /\ out = <<>>
          \/ Returned /\ out = STR_NG \o STR_unknown \o <<0>>

\* C14 witness: the instruction 'r' answered with the error frame after a
\* completed Write
C14_Witness ==
    /\ Returned /\ instruction = CH_r
    /\ out = STR_NG \o STR_unknown \o <<0>>
    /\ hw.chip # <<>> /\ hw.mode = "IDLE"

\* C15: a call that has not matched 'S','R','A','M' and read an instruction
\* byte has emitted nothing and touched no pin, whether it is still scanning
\* or has returned on a mismatch; whatever a call emits, and any pin it
\* changes, comes after it read those five bytes one after the other.
C15_SilentSync ==
    /\ instruction = 0 => out = <<>> /\ hw = log.hw0
    /\ (out # <<>> \/ hw # log.hw0)
       => /\ Len(log.head) = Len(SYNC) + 1
          /\ SubSeq(log.head, 1, Len(SYNC)) = SYNC
          /\ log.head[Len(SYNC) + 1] = instruction

\* C15 witness: after a Write, a call that matched 'S','R','A' and then read
\* an 'S' has returned in silence
C15_Witness ==
    /\ Returned /\ instruction = 0
    /\ log.head = <<CH_S, CH_R, 65, CH_S>>
    /\ out = <<>> /\ hw = log.hw0
    /\ hw.chip # <<>>

\* the positions inside and right after the address-shifting loop
InShiftLoop == pc \in {"rs_shift", "ws_shift"}

AfterShiftLoop == pc \in {"rs_enable", "ws_data"}

\* C16: for every 24-bit address the address-shifting loop makes one rising
\* edge of SERCLK per pass, 24 in all, each taking in the bit SERDAT was set
\* to before it, bit 23 first and bit 0 last (after k passes the low k bits
\* of the shift register are the top k bits of the address); SERCLK is LOW
\* between passes and at the end, when the 24-stage shift register holds
\* exactly the address whatever it held before.
C16_AddressSerialized ==
    (InShiftLoop \/ AfterShiftLoop)
    => /\ hw.edges = i
       /\ hw.level[SERCLK] = LOW
       /\ hw.shiftreg % Pow2(i) = Shr(addr, ADDR_BITS - i)
       /\ (i > 0 => hw.level[SERDAT] = AddressBit(addr, i - 1))
       /\ (InShiftLoop => i < ADDR_BITS)
       /\ (AfterShiftLoop => /\ i = ADDR_BITS
                             /\ hw.edges = ADDR_BITS
                             /\ hw.shiftreg = addr
                             /\ hw.level[SERDAT] = addr % 2)

\* C16 witness: the loop has ended for the address 0xAAAAAA on shift
\* registers that held 0x555555
C16_Witness ==
    /\ AfterShiftLoop
    /\ addr = 11184810
    /\ log.hw0.shiftreg = 5592405
    /\ hw.shiftreg = 11184810
    /\ hw.edges = ADDR_BITS

\* C17: whenever OE or WE is active, 24 rising edges have clocked the address
\* of the current access into the shift registers since the access began, so
\* the registers hold that address and the chip is presented with it; and
\* while the address is being clocked (from the start of an access until its
\* 24th edge) neither OE nor WE is active.
C17_AccessAfterSerialization ==
    /\ (hw.level[OE] = HIGH \/ hw.level[WE] = HIGH)
       => /\ hw.edges = ADDR_BITS
          /\ hw.shiftreg = addr
          /\ ChipAddress(hw.shiftreg) = addr
          /\ pc \in {"rs_sample", "rs_disable", "ws_end"}
    /\ (InShiftLoop \/ hw.edges < ADDR_BITS)
       => hw.level[OE] = LOW /\ hw.level[WE] = LOW
    /\ pc \in {"rs_sample", "ws_pulse"}
       => hw.edges = ADDR_BITS /\ hw.shiftreg = addr

\* C17 witness: OE active for the last byte of the long Read, the shift
\* registers holding its address after the 64 accesses before it
C17_Witness ==
    /\ hw.level[OE] = HIGH /\ pc = "rs_sample"
    /\ addr = LongLen - 1
    /\ Len(log.reads) = LongLen - 1
    /\ hw.shiftreg = LongLen - 1 /\ hw.edges = ADDR_BITS

\* C18: whenever OE is active the eight data pins are inputs and read_mode()
\* was the last mode function; whenever WE is active the eight data pins are
\* outputs and write_mode() was the last mode function; read_sram runs only
\* after read_mode() and write_sram only after write_mode(), also in commands
\* that follow a refused Read.
C18_DirectionMatchesEnable ==
    /\ hw.level[OE] = HIGH => AllDQ(hw, "INPUT") /\ hw.mode = "READ"
    /\ hw.level[WE] = HIGH => AllDQ(hw, "OUTPUT") /\ hw.mode = "WRITE"
    /\ InReadSram => AllDQ(hw, "INPUT") /\ hw.mode = "READ"
    /\ pc \in {"ws_begin", "ws_shift", "ws_data", "ws_pulse", "ws_end"}
       => AllDQ(hw, "OUTPUT") /\ hw.mode = "WRITE"

\* C18 witness: OE active in a Read that follows a Read refused at a window
\* boundary
C18_Witness ==
    /\ hw.level[OE] = HIGH /\ AllDQ(hw, "INPUT") /\ hw.mode = "READ"
    /\ hist.aborts > 0
    /\ Len(log.reads) = WINDOW

\* the positions inside write_sram
InWriteSram == pc \in {"ws_begin", "ws_shift", "ws_data", "ws_pulse", "ws_end"}

\* a is an address of the range [s, e) and of the chip
InSentRange(a, s, e) == s <= a /\ a < e /\ a < MEM_SIZE

\* the chip addresses written in this run
Written(h) == DOMAIN h.chip

\* nothing was passed to read_sram or write_sram and the chip is untouched
NoAccess ==
    /\ log.reads = <<>> /\ log.writes = <<>>
    /\ ~InReadSram /\ ~InWriteSram
    /\ hw.chip = log.hw0.chip /\ hw.level[WE] = LOW

\* C19: every address passed to read_sram or write_sram lies in [start, end)
\* of the command and is < MEM_SIZE; a Write leaves every chip byte outside
\* [start, end) as it was when the command began, and a rejected Write, a
\* Read, a Status, an unknown instruction and a failed sync leave the whole
\* chip as it was, with WE never active.
C19_AccessesInsideRange ==
    /\ Len(log.addrbytes) < 6 => NoAccess
    /\ Len(log.addrbytes) = 6
       => LET s == SentStart
              e == SentEnd
          IN  /\ \A k \in 1..Len(log.reads) : InSentRange(log.reads[k][1], s, e)
              /\ \A k \in 1..Len(log.writes) :
                    InSentRange(log.writes[k][1], s, e)
              /\ (InReadSram \/ InWriteSram) => InSentRange(addr, s, e)
              /\ \A a \in Written(hw) \cup Written(log.hw0) :
                    ~InSentRange(a, s, e) => /\ a \in Written(log.hw0)
                                             /\ hw.chip[a] = log.hw0.chip[a]
              /\ ~ValidRange(s, e) => NoAccess
    /\ instruction # CH_W
       => hw.chip = log.hw0.chip /\ hw.level[WE] = LOW /\ log.writes = <<>>

\* C19 witness: a completed Write of [1, 33) on a chip where [0, 65) had been
\* written: address 0 and the addresses from 33 keep their bytes, address 1
\* has a new one
C19_Witness ==
    /\ Returned /\ InCommand(CH_W)
    /\ SentStart = 1 /\ SentEnd = 1 + WINDOW
    /\ Written(log.hw0) = 0..(LongLen - 1)
    /\ hw.chip[0] = log.hw0.chip[0]
    /\ hw.chip[1 + WINDOW] = log.hw0.chip[1 + WINDOW]
    /\ hw.chip[1] # log.hw0.chip[1]

\* C20: with `cont` wrapping in 16 bits and % the C remainder, `cont % 32 ==
\* 0` is true exactly when the data index addr - start is a multiple of 32,
\* at every index of a transfer of up to MEM_SIZE bytes, so also after the
\* counter has passed INT_MAX.
C20_WindowAfterOverflow ==
    pc = "count" => (AtWindow(cont) <=> (addr - startaddr) % WINDOW = 0)

\* C20 witness: the window boundary at index 65536, the counter having
\* wrapped through -32768 back to 0
C20_Witness ==
    /\ pc = "count"
    /\ addr - startaddr = 65536
    /\ cont = 0
    /\ AtWindow(cont)

\* the firmware is inside read_serial() with nothing to read
Blocked ==
    /\ pc \in {"sync", "instr", "r_addr", "w_addr", "r_tokC", "r_tokO",
               "w_payload"}
    /\ ~Available

\* an instruction has been dispatched and its command has not returned
Dispatched == pc \notin {"sync", "instr"}

\* what a command emits before its terminal frame: "CO" and the data read so
\* far for a Read, one "CO" per window begun for a Write
Preamble ==
    IF instruction = CH_R /\ (log.reads # <<>> \/ log.tokAt # <<>>
                              \/ pc = "r_loop")
    THEN STR_CO \o [k \in 1..log.ndata |-> log.reads[k][2]]
    ELSE IF instruction = CH_W THEN Repeat(STR_CO, Len(log.coAt))
    ELSE <<>>

\* the frames that end a command
TerminalFrames ==
    {STR_OK} \cup
    {STR_NG \o str \o <<0>> : str \in {STR_unknown, STR_unexpected,
                                       STR_out_of_order}} \cup
    (IF Len(log.addrbytes) = 6
     THEN {AddressErrorFrame(STR_Starting, SentStart),
           AddressErrorFrame(STR_Ending, SentEnd)}
     ELSE {})

\* a command still running has emitted no terminal frame; one that has
\* returned has emitted exactly one, as the last thing it emitted
OneTerminalFrame ==
    instruction # 0
    => IF pc \in {"sync", "r_idle", "w_idle"}
       THEN \E t \in TerminalFrames : out = Preamble \o t
       ELSE out = Preamble

\* C21: every dispatched command that the host keeps supplied ends, with
\* exactly one terminal frame ("OK" or one "NG" ... 0x00, never both) as the
\* last thing it emits, back at the wait-for-sync point; and while the
\* firmware waits in read_serial() with nothing to read it takes no step:
\* its position, output, pins and chip stay as they are until a byte comes.
C21_TerminatesUnlessStarved ==
    /\ []OneTerminalFrame
    /\ [][Blocked => (pc' = pc /\ syncpos' = syncpos /\ out' = out
                      /\ hw' = hw /\ log' = log)]_vars
    /\ (Dispatched ~> Returned)

\* C21 witness: a Write waiting for the first payload byte of its second
\* window, 32 bytes written and two "CO" sent
C21_Witness ==
    /\ Blocked /\ pc = "w_payload"
    /\ Len(log.writes) = WINDOW
    /\ out = STR_CO \o STR_CO

=============================================================================
